---- MODULE Spec2Model ----
(***************************************************************************)
(* Furlang IR generation: the two lowerers of package irgen.               *)
(*   impl "A"  src/irgen/irgen.go      (expression-oriented, has for)      *)
(*   impl "B"  src/unnamed/part_001    (statement-oriented, Scope object)  *)
(* Both walk a typed AST and emit goory basic blocks.  Every handler of    *)
(* the Go code is an operator that takes the generator state g and returns *)
(* the state after the handler (and the value it returns, if any).         *)
(***************************************************************************)
EXTENDS Integers, Sequences, FiniteSets, TLC

\* ------------------------------------------------------------- bounds
\* parameters per function (the names come from ParamNames)
MaxParams == 2
\* frames kept of the scopes array of irgen.go (the source allocates 1000)
ScopeTop == 5

\* ------------------------------------------------------------- AST
Nil == [k |-> "Nil"]
IntLit(v) == [k |-> "Int", v |-> v]
FloatLit(v) == [k |-> "Float", v |-> v]
Ident(n) == [k |-> "Ident", name |-> n]
Binary(op, fp, l, r) == [k |-> "Binary", op |-> op, isFp |-> fp, lhs |-> l, rhs |-> r]
Call(fn, args) == [k |-> "Call", fn |-> fn, args |-> args]
Cast(ty, e) == [k |-> "Cast", ty |-> ty, e |-> e]
Return(e) == [k |-> "Return", value |-> e]
Assign(n, d, ty, e) == [k |-> "Assign", name |-> n, declare |-> d, ty |-> ty, e |-> e]
If(c, b, els) == [k |-> "If", cond |-> c, block |-> b, else |-> els]
For(ix, c, inc, b) == [k |-> "For", index |-> ix, cond |-> c, inc |-> inc, block |-> b]
Block(ss) == [k |-> "Block", stmts |-> ss]
ArrayList(n, ty, list) == [k |-> "ArrayList", name |-> n, ty |-> ty, list |-> list]
ArrayValue(a, ix) == [k |-> "ArrayValue", array |-> a, index |-> ix]
Function(n, ps, ret, body) == [name |-> n, params |-> ps, ret |-> ret, body |-> body]
Param(n, ty) == [name |-> n, ty |-> ty]
NoFunction == Function("", <<>>, "", <<>>)

Ops == {"ADD", "SUB", "MUL", "QUO", "REM", "EQL", "NEQ", "GTR", "LSS"}
VarNames == {"x", "y", "i"}
FuncNames == {"f", "g"}
Names == VarNames \cup FuncNames

\* ------------------------------------------------------------- IR values
NilV == [k |-> "nil", n |-> 0, s |-> ""]
ConstV(ty, v) == [k |-> "const", n |-> v, s |-> ty]
TmpV(id, ty) == [k |-> "tmp", n |-> id, s |-> ty]
PtrV(id, ty) == [k |-> "ptr", n |-> id, s |-> ty]
ArgV(i, ty) == [k |-> "arg", n |-> i, s |-> ty]
FuncV(i, name) == [k |-> "func", n |-> i, s |-> name]

Ins(op, id, ty, x, y, t, f, args) ==
    [op |-> op, id |-> id, ty |-> ty, x |-> x, y |-> y, t |-> t, f |-> f, args |-> args]

Terminators == {"br", "condbr", "ret"}
BlockRef(fn, b) == [fn |-> fn, b |-> b]
NoBlock == BlockRef(0, 0)

EmptyFrame == [n \in Names |-> NilV]

\* ------------------------------------------------------------- errors
\* A panic or a log.Fatalf ends lowering; the first one sticks and every
\* later mutation of the generator is skipped.
Ok(g) == g.err = "none"
Raise(g, e) == IF Ok(g) THEN [g EXCEPT !.err = e] ELSE g

\* ------------------------------------------------------------- goory
NewFunction(g, name, ret) ==
    [g EXCEPT !.module = Append(@, [name |-> name, ret |-> ret, params |-> <<>>,
                                    blocks |-> << <<>> >>])]

Entry(fn) == BlockRef(fn, 1)

Insts(g, b) == g.module[b.fn].blocks[b.b]

Valid(g, b) == b.fn \in 1..Len(g.module) /\ b.b \in 1..Len(g.module[b.fn].blocks)

Terminated(g, b) ==
    /\ Valid(g, b)
    /\ Len(Insts(g, b)) > 0
    /\ Insts(g, b)[Len(Insts(g, b))].op \in Terminators

Emit(g, b, ins) ==
    IF Ok(g) /\ Valid(g, b)
    THEN [g EXCEPT !.module[b.fn].blocks[b.b] = Append(@, ins), !.nextId = @ + 1]
    ELSE g

\* Function.AddBlock: a new empty block at the end of the function
AddBlock(g, fn) ==
    IF Ok(g) /\ fn \in 1..Len(g.module)
    THEN [g |-> [g EXCEPT !.module[fn].blocks = Append(@, <<>>)],
          v |-> BlockRef(fn, Len(g.module[fn].blocks) + 1)]
    ELSE [g |-> g, v |-> NoBlock]

AddArgument(g, fn, ty, name) ==
    IF Ok(g)
    THEN [g |-> [g EXCEPT !.module[fn].params = Append(@, Param(name, ty))],
          v |-> ArgV(Len(g.module[fn].params) + 1, ty)]
    ELSE [g |-> g, v |-> NilV]

Alloca(g, b, ty) ==
    [g |-> Emit(g, b, Ins("alloca", g.nextId, ty, NilV, NilV, 0, 0, <<>>)),
     v |-> PtrV(g.nextId, ty)]

Store(g, b, ptr, val) ==
    Emit(g, b, Ins("store", 0, "", ptr, val, 0, 0, <<>>))

Load(g, b, ptr) ==
    [g |-> Emit(g, b, Ins("load", g.nextId, ptr.s, ptr, NilV, 0, 0, <<>>)),
     v |-> TmpV(g.nextId, ptr.s)]

\* Block.Getelementptr: the address of element i of the array at ptr
Getelementptr(g, b, ty, ptr, i) ==
    [g |-> Emit(g, b, Ins("getelementptr", g.nextId, ty, ptr, ConstV("i64", i),
                          0, 0, <<>>)),
     v |-> PtrV(g.nextId, ty)]

\* the element type of an array type
ElemType(ty) ==
    CASE ty = "[2 x i64]" -> "i64"
      [] ty = "[2 x double]" -> "double"
      [] OTHER -> ty

\* Block.Extractvalue reads the index's type: a nil index is a nil dereference
Extractvalue(g, b, agg, index) ==
    IF index.k = "nil"
    THEN [g |-> Raise(g, "NilDereference"), v |-> NilV]
    ELSE [g |-> Emit(g, b, Ins("extractvalue", g.nextId, ElemType(agg.s), agg, index,
                               0, 0, <<>>)),
          v |-> TmpV(g.nextId, ElemType(agg.s))]

\* an arithmetic or compare instruction; op is the LLVM opcode text
Arith(g, b, op, ty, l, r) ==
    [g |-> Emit(g, b, Ins(op, g.nextId, ty, l, r, 0, 0, <<>>)),
     v |-> TmpV(g.nextId, ty)]

\* Block.Cast: nothing is emitted when the value already has the type
CastTo(g, b, val, ty) ==
    IF val.s = ty
    THEN [g |-> g, v |-> val]
    ELSE [g |-> Emit(g, b, Ins("cast", g.nextId, ty, val, NilV, 0, 0, <<>>)),
          v |-> TmpV(g.nextId, ty)]

\* Block.Call reads the callee's type: a nil callee is a nil dereference
CallFn(g, b, fv, args) ==
    IF fv.k # "func"
    THEN [g |-> Raise(g, "NilDereference"), v |-> NilV]
    ELSE [g |-> Emit(g, b, Ins("call", g.nextId, "", fv, NilV, 0, 0, args)),
          v |-> TmpV(g.nextId, g.module[fv.n].ret)]

Br(g, b, target) ==
    Emit(g, b, Ins("br", 0, "", NilV, NilV, target.b, 0, <<>>))

CondBr(g, b, c, t, f) ==
    Emit(g, b, Ins("condbr", 0, "", c, NilV, t.b, f.b, <<>>))

Ret(g, b, val) ==
    Emit(g, b, Ins("ret", 0, "", val, NilV, 0, 0, <<>>))

\* v bound to a name for the rest of a handler.  The test evaluates v before
\* F is applied, as the handler computes a value before the statements that
\* use it.
Bind(v, F(_)) == IF v = v THEN F(v) ELSE F(v)

SetBlock(g, b) == IF Ok(g) THEN [g EXCEPT !.block = b] ELSE g

SetScope(g, n) == IF Ok(g) THEN [g EXCEPT !.currentScope = n] ELSE g

\* ------------------------------------------------------------- irgen.go
\* scopes[currentScope][name] = value; the array has ScopeTop + 1 frames
BindA(g, name, val) ==
    IF ~Ok(g) THEN g
    ELSE IF g.currentScope > ScopeTop THEN Raise(g, "IndexOutOfRange")
    ELSE [g EXCEPT !.scopes[g.currentScope][name] = val]

newScope(g) == [g EXCEPT !.scopes = [i \in 0..ScopeTop |-> EmptyFrame]]

RECURSIVE findFrom(_, _, _)
findFrom(g, search, v) ==
    IF search < 0 THEN NilV
    ELSE IF search <= ScopeTop /\ v \in Names /\ g.scopes[search][v] # NilV
         THEN g.scopes[search][v]
         ELSE findFrom(g, search - 1, v)

find(g, v) == findFrom(g, g.currentScope, v)

integer(g, node) == [g |-> g, v |-> ConstV("i64", node.v)]

float(g, node) == [g |-> g, v |-> ConstV("double", node.v)]

boolNode(g, node) ==
    CASE node.name = "true" -> [g |-> g, v |-> ConstV("i1", 1)]
      [] node.name = "false" -> [g |-> g, v |-> ConstV("i1", 0)]
      [] OTHER -> [g |-> Raise(g, "PanicIdentNotBool"), v |-> NilV]

\* binary with a float remainder case added to the float switch
binaryOpA_FloatRem(op, isFp) ==
    IF isFp
    THEN CASE op = "ADD" -> "fadd"
           [] op = "SUB" -> "fsub"
           [] op = "MUL" -> "fmul"
           [] op = "QUO" -> "fdiv"
           [] op = "REM" -> "frem"
           [] op = "NEQ" -> "fcmp one"
           [] op = "EQL" -> "fcmp oeq"
           [] op = "GTR" -> "fcmp ogt"
           [] op = "LSS" -> "fcmp olt"
           [] OTHER -> ""
    ELSE CASE op = "ADD" -> "add"
           [] op = "SUB" -> "sub"
           [] op = "MUL" -> "mul"
           [] op = "QUO" -> "sdiv"
           [] op = "REM" -> "srem"
           [] op = "NEQ" -> "icmp ne"
           [] op = "EQL" -> "icmp eq"
           [] op = "GTR" -> "icmp sgt"
           [] op = "LSS" -> "icmp slt"
           [] OTHER -> ""

\* the two switches of binary: the opcode, or "" when no case matches
binaryOpA(op, isFp) ==
    IF isFp
    THEN CASE op = "ADD" -> "fadd"
           [] op = "SUB" -> "fsub"
           [] op = "MUL" -> "fmul"
           [] op = "QUO" -> "fdiv"
           [] op = "NEQ" -> "fcmp one"
           [] op = "EQL" -> "fcmp oeq"
           [] op = "GTR" -> "fcmp ogt"
           [] op = "LSS" -> "fcmp olt"
           [] OTHER -> ""
    ELSE CASE op = "ADD" -> "add"
           [] op = "SUB" -> "sub"
           [] op = "MUL" -> "mul"
           [] op = "QUO" -> "sdiv"
           [] op = "REM" -> "srem"
           [] op = "NEQ" -> "icmp ne"
           [] op = "EQL" -> "icmp eq"
           [] op = "GTR" -> "icmp sgt"
           [] op = "LSS" -> "icmp slt"
           [] OTHER -> ""

IsCompare(opc) ==
    opc \in {"icmp eq", "icmp ne", "icmp sgt", "icmp slt",
             "fcmp oeq", "fcmp one", "fcmp ogt", "fcmp olt"}

RECURSIVE expression(_, _)
RECURSIVE expressions(_, _, _)
RECURSIVE blockNode(_, _)
RECURSIVE ifNode(_, _)
RECURSIVE forNode(_, _)
RECURSIVE assignment(_, _)
RECURSIVE call(_, _)
RECURSIVE callArgs(_, _, _, _)
RECURSIVE binary(_, _)
RECURSIVE ret(_, _)
RECURSIVE cast(_, _)
RECURSIVE arrayElems(_, _, _, _)
RECURSIVE arrayValue(_, _)

binary(g, node) ==
    Bind(expression(g, node.lhs), LAMBDA lhs :
    Bind(expression(lhs.g, node.rhs), LAMBDA rhs :
    Bind(binaryOpA(node.op, node.isFp), LAMBDA opc :
        IF opc = ""
        THEN [g |-> Raise(rhs.g, "PanicUnhandledBinaryOperator"), v |-> NilV]
        ELSE Arith(rhs.g, rhs.g.block, opc,
                   IF IsCompare(opc) THEN "i1" ELSE lhs.v.s, lhs.v, rhs.v))))

cast(g, node) ==
    Bind(expression(g, node.e), LAMBDA value :
        IF value.v.k = "nil"
        THEN [g |-> Raise(value.g, "NilDereference"), v |-> NilV]
        ELSE CastTo(value.g, value.g.block, value.v, node.ty))

ret(g, node) ==
    Bind(expression(g, node.value), LAMBDA value :
    Bind(IF value.v.k = "nil"
         THEN [g |-> Raise(value.g, "NilDereference"), v |-> NilV]
         ELSE CastTo(value.g, value.g.block, value.v, value.g.currentFunction.ret),
         LAMBDA c : Ret(c.g, c.g.block, c.v)))

assignment(g, node) ==
    Bind(find(g, node.name), LAMBDA found :
    Bind(~node.declare /\ found # NilV, LAMBDA reassign :
    Bind(IF reassign THEN [g |-> g, v |-> found]
         ELSE Bind(Alloca(g, g.block, node.ty), LAMBDA a :
                   [g |-> BindA(a.g, node.name, a.v), v |-> a.v]),
         LAMBDA alloc :
    Bind(expression(alloc.g, node.e), LAMBDA value :
        IF value.v = NilV THEN value.g
        ELSE IF alloc.v.k # "ptr" THEN Raise(value.g, "InterfaceConversion")
        ELSE Store(value.g, value.g.block, alloc.v, value.v)))))

\* the argument loop of call: acc collects the values
callArgs(g, args, i, acc) ==
    IF i > Len(args) THEN [g |-> g, v |-> acc]
    ELSE Bind(expression(g, args[i]), LAMBDA value :
              callArgs(value.g, args, i + 1, Append(acc, value.v)))

call(g, node) ==
    Bind(IF node.fn \in Names THEN g.functions[node.fn] ELSE NilV, LAMBDA callee :
    Bind(callArgs(g, node.args, 1, <<>>), LAMBDA args :
        CallFn(args.g, args.g.block, callee, args.v)))

\* the loop of array: the element's address, the element, the store.  The
\* type assertion on alloc is made at each turn; Block.Store reads the type
\* of the value, so a nil value is a nil dereference
arrayElems(g, node, alloc, i) ==
    IF i > Len(node.list) THEN g
    ELSE IF alloc.k # "ptr" THEN Raise(g, "InterfaceConversion")
    ELSE Bind(Getelementptr(g, g.block, node.ty, alloc, i - 1), LAMBDA indexPtr :
         Bind(expression(indexPtr.g, node.list[i]), LAMBDA value :
         Bind(IF value.v = NilV THEN Raise(value.g, "NilDereference")
              ELSE Store(value.g, value.g.block, indexPtr.v, value.v),
              LAMBDA g1 : arrayElems(g1, node, alloc, i + 1))))

array(g, node) == [g |-> arrayElems(g, node, find(g, node.name), 1), v |-> NilV]

arrayValue(g, node) ==
    Bind(find(g, node.array), LAMBDA arrayAlloc :
        IF arrayAlloc.k # "ptr"
        THEN [g |-> Raise(g, "InterfaceConversion"), v |-> NilV]
        ELSE Bind(Load(g, g.block, arrayAlloc), LAMBDA arr :
             Bind(expression(arr.g, node.index), LAMBDA index :
                 Extractvalue(index.g, index.g.block, arr.v, index.v))))

\* the loops over node.Expressions
expressions(g, es, i) ==
    IF i > Len(es) THEN g
    ELSE Bind(expression(g, es[i]).g, LAMBDA g1 : expressions(g1, es, i + 1))

blockNode(g, es) ==
    Bind(AddBlock(g, g.block.fn), LAMBDA newBlock :
    Bind(expressions(SetBlock(SetScope(newBlock.g, g.currentScope + 1), newBlock.v),
                     es, 1),
         LAMBDA g2 :
        [g |-> SetBlock(SetScope(g2, g.currentScope), g.block),
         start |-> newBlock.v, end |-> g2.block]))

\* if !b.Terminated() { b.Br(target) }
BrUnlessTerminated(g, b, target) ==
    IF ~Terminated(g, b) THEN Br(g, b, target) ELSE g

\* lines 274-281: the else arm's own condition goes into falseConditionCheck
falseCondition(g, node, falseStart, nextBlock) ==
    IF node.else.cond # Nil
    THEN Bind(AddBlock(g, g.block.fn), LAMBDA falseConditionCheck :
         Bind(expression(falseConditionCheck.g, node.else.cond), LAMBDA c :
             CondBr(c.g, falseConditionCheck.v, c.v, falseStart, nextBlock)))
    ELSE g

ifNode(g, node) ==
    Bind(blockNode(g, node.block), LAMBDA true :
    Bind(expression(true.g, node.cond), LAMBDA condition :
    Bind(AddBlock(condition.g, condition.g.block.fn), LAMBDA nextBlock :
    Bind(IF node.else = Nil
         THEN [g |-> nextBlock.g, start |-> nextBlock.v, end |-> nextBlock.v]
         ELSE Bind(blockNode(nextBlock.g, node.else.block), LAMBDA fb :
                   [g |-> falseCondition(fb.g, node, fb.start, nextBlock.v),
                    start |-> fb.start, end |-> fb.end]),
         LAMBDA false :
    Bind(CondBr(false.g, false.g.block, condition.v, true.start, false.start),
         LAMBDA g4 :
    Bind(IF node.else # Nil /\ node.else.else # Nil
         THEN ifNode(g4, node.else.else).g
         ELSE g4,
         LAMBDA g5 :
        [g |-> BrUnlessTerminated(BrUnlessTerminated(g5, true.end, nextBlock.v),
                                  false.end, nextBlock.v),
         v |-> nextBlock.v]))))))

forNode(g, node) ==
    Bind(expression(g, node.index), LAMBDA index :
    Bind(expression(index.g, node.cond), LAMBDA condition :
    Bind(blockNode(condition.g, node.block), LAMBDA for :
    Bind(AddBlock(for.g, for.g.block.fn), LAMBDA exitBlock :
    Bind(CondBr(exitBlock.g, exitBlock.g.block, condition.v, for.start, exitBlock.v),
         LAMBDA g2 :
    Bind(expression(SetBlock(g2, for.end), node.inc), LAMBDA inc :
    Bind(expression(inc.g, node.cond), LAMBDA condition2 :
        SetBlock(CondBr(condition2.g, condition2.g.block, condition2.v,
                        for.start, exitBlock.v),
                 exitBlock.v))))))))

\* case *ast.Block of expression
blockExpression(g, node) ==
    Bind(blockNode(g, node.stmts), LAMBDA r :
        SetBlock(Br(r.g, r.g.block, r.start), r.end))

\* case ast.Ident of expression
identExpression(g, node) ==
    IF node.name \in {"true", "false"} THEN boolNode(g, node)
    ELSE Bind(find(g, node.name), LAMBDA p :
              IF p.k # "ptr"
              THEN [g |-> Raise(g, "InterfaceConversion"), v |-> NilV]
              ELSE Load(g, g.block, p))

\* case ast.If of expression
ifExpression(g, node) ==
    Bind(ifNode(g, node), LAMBDA next : SetBlock(next.g, next.v))

\* line 144 takes reflect.TypeOf(node).String() before the switch: a nil
\* node is a nil dereference there
expression(g, node) ==
    CASE node.k = "Nil" -> [g |-> Raise(g, "NilDereference"), v |-> NilV]
      [] node.k = "Return" -> [g |-> ret(g, node), v |-> NilV]
      [] node.k = "Cast" -> cast(g, node)
      [] node.k = "Assign" -> [g |-> assignment(g, node), v |-> NilV]
      [] node.k = "Call" -> call(g, node)
      [] node.k = "If" -> [g |-> ifExpression(g, node), v |-> NilV]
      [] node.k = "For" -> [g |-> forNode(g, node), v |-> NilV]
      [] node.k = "ArrayList" -> array(g, node)
      [] node.k = "ArrayValue" -> arrayValue(g, node)
      [] node.k = "Block" -> [g |-> blockExpression(g, node), v |-> NilV]
      [] node.k = "Binary" -> binary(g, node)
      [] node.k = "Int" -> integer(g, node)
      [] node.k = "Float" -> float(g, node)
      [] node.k = "Ident" -> identExpression(g, node)
      [] OTHER -> [g |-> Raise(g, "NodeNotHandled"), v |-> NilV]

RECURSIVE functionArgs(_, _, _, _)

\* the argument loop without the store of the incoming argument
functionArgs_NoStore(g, fn, params, i) ==
    IF i > Len(params) THEN g
    ELSE Bind(AddArgument(g, fn, params[i].ty, params[i].name), LAMBDA argValue :
         Bind(Alloca(argValue.g, argValue.g.block, params[i].ty), LAMBDA argAlloc :
         Bind(BindA(argAlloc.g, params[i].name, argAlloc.v),
              LAMBDA g1 : functionArgs(g1, fn, params, i + 1))))

\* function, lines 129-135: the argument slots
functionArgs(g, fn, params, i) ==
    IF i > Len(params) THEN g
    ELSE Bind(AddArgument(g, fn, params[i].ty, params[i].name), LAMBDA argValue :
         Bind(Alloca(argValue.g, argValue.g.block, params[i].ty), LAMBDA argAlloc :
         Bind(BindA(Store(argAlloc.g, argAlloc.g.block, argAlloc.v, argValue.v),
                    params[i].name, argAlloc.v),
              LAMBDA g1 : functionArgs(g1, fn, params, i + 1))))

\* function, lines 113-135: the scope reset, the function's own binding and
\* the argument slots
function(g, node) ==
    Bind(SetScope(newScope([g EXCEPT !.currentFunction = node]), 0), LAMBDA g1 :
    Bind(g1.functions[node.name], LAMBDA fv :
    Bind(BindA(SetBlock(g1, Entry(fv.n)), node.name, fv), LAMBDA g3 :
        functionArgs(SetScope(g3, g3.currentScope + 1), fv.n, node.params, 1))))

\* NewIrgen: every function of the ast gets its goory function first
RECURSIVE newFunctions(_, _, _)
newFunctions(g, tree, i) ==
    IF i > Len(tree) THEN g
    ELSE Bind(NewFunction(g, tree[i].name, tree[i].ret), LAMBDA g1 :
             newFunctions([g1 EXCEPT !.functions[tree[i].name] =
                                         FuncV(Len(g1.module), tree[i].name)],
                          tree, i + 1))

Blank ==
    [module |-> <<>>, functions |-> [n \in Names |-> NilV],
     scopes |-> [i \in 0..ScopeTop |-> EmptyFrame], currentScope |-> 0,
     scope |-> <<>>, block |-> NoBlock, currentFunction |-> NoFunction,
     nextId |-> 1, err |-> "none"]

NewIrgen(tree) == newScope(newFunctions(Blank, tree, 1))

\* ------------------------------------------------------------- Scope
\* The Scope type of part_001 (NewScope, Push, AddVar, GetVar, AddFunction,
\* GetFunction): a stack of frames, the last one innermost.
NewScope == << EmptyFrame >>

Push(s) == Append(s, EmptyFrame)

AddVar(s, name, val) == [s EXCEPT ![Len(s)][name] = val]

AddFunction(s, name, fv) == [s EXCEPT ![1][name] = fv]

RECURSIVE lookup(_, _, _, _)
lookup(s, i, name, kind) ==
    IF i < 1 \/ name \notin Names THEN NilV
    ELSE IF s[i][name].k = kind THEN s[i][name]
    ELSE lookup(s, i - 1, name, kind)

GetVar(s, name) == lookup(s, Len(s), name, "ptr")

GetFunction(s, name) == lookup(s, Len(s), name, "func")

SetScopeB(g, s) == IF Ok(g) THEN [g EXCEPT !.scope = s] ELSE g

\* ------------------------------------------------------------- part_001
\* g.block is the parentBlock field of this lowerer
binaryOpB(op, isFp) ==
    IF isFp
    THEN CASE op = "ADD" -> "fadd"
           [] op = "SUB" -> "fsub"
           [] op = "MUL" -> "fmul"
           [] op = "QUO" -> "fdiv"
           [] op = "EQL" -> "fcmp oeq"
           [] op = "NEQ" -> "fcmp one"
           [] op = "GTR" -> "fcmp ogt"
           [] op = "LSS" -> "fcmp olt"
           [] OTHER -> ""
    ELSE CASE op = "ADD" -> "add"
           [] op = "SUB" -> "sub"
           [] op = "MUL" -> "mul"
           [] op = "QUO" -> "sdiv"
           [] op = "EQL" -> "icmp eq"
           [] op = "NEQ" -> "icmp ne"
           [] op = "GTR" -> "icmp sgt"
           [] op = "LSS" -> "icmp slt"
           [] op = "REM" -> "srem"
           [] OTHER -> ""

RECURSIVE expressionB(_, _)
RECURSIVE binaryExp(_, _)
RECURSIVE castExp(_, _)
RECURSIVE callExp(_, _)
RECURSIVE callExpArgs(_, _, _, _)
RECURSIVE statement(_, _)
RECURSIVE statements(_, _, _)
RECURSIVE block(_, _)
RECURSIVE ifSmt(_, _, _, _)

literalExp(g, node) ==
    CASE node.k = "Int" -> [g |-> g, v |-> ConstV("i64", node.v)]
      [] node.k = "Float" -> [g |-> g, v |-> ConstV("double", node.v)]
      [] OTHER -> [g |-> Raise(g, "PanicUnknownLiteralType"), v |-> NilV]

identExp(g, node) ==
    IF node.name = "true" THEN [g |-> g, v |-> ConstV("i1", 1)]
    ELSE IF node.name = "false" THEN [g |-> g, v |-> ConstV("i1", 0)]
    ELSE Bind(GetVar(g.scope, node.name), LAMBDA item :
              IF item = NilV
              THEN [g |-> Raise(g, "FatalNotInScope"), v |-> NilV]
              ELSE Load(g, g.block, item))

binaryExp(g, node) ==
    Bind(expressionB(g, node.lhs), LAMBDA left :
    Bind(expressionB(left.g, node.rhs), LAMBDA right :
    Bind(binaryOpB(node.op, node.isFp), LAMBDA opc :
        IF opc = ""
        THEN [g |-> Raise(right.g, "PanicUnhandledBinaryOperator"), v |-> NilV]
        ELSE Arith(right.g, right.g.block, opc,
                   IF IsCompare(opc) THEN "i1" ELSE left.v.s, left.v, right.v))))

castExp(g, node) ==
    Bind(expressionB(g, node.e), LAMBDA exp :
        IF exp.v.k = "nil"
        THEN [g |-> Raise(exp.g, "NilDereference"), v |-> NilV]
        ELSE CastTo(exp.g, exp.g.block, exp.v, node.ty))

callExpArgs(g, args, i, acc) ==
    IF i > Len(args) THEN [g |-> g, v |-> acc]
    ELSE Bind(expressionB(g, args[i]), LAMBDA value :
              callExpArgs(value.g, args, i + 1, Append(acc, value.v)))

callExp(g, node) ==
    Bind(GetFunction(g.scope, node.fn), LAMBDA callee :
    Bind(callExpArgs(g, node.args, 1, <<>>), LAMBDA args :
        CallFn(args.g, args.g.block, callee, args.v)))

expressionB(g, node) ==
    CASE node.k = "Binary" -> binaryExp(g, node)
      [] node.k = "Cast" -> castExp(g, node)
      [] node.k \in {"Int", "Float"} -> literalExp(g, node)
      [] node.k = "Ident" -> identExp(g, node)
      [] node.k = "Call" -> callExp(g, node)
      [] OTHER -> [g |-> Raise(g, "UnknownExpressionNode"), v |-> NilV]

returnSmt(g, node) ==
    Bind(expressionB(g, node.value), LAMBDA exp : Ret(exp.g, exp.g.block, exp.v))

\* g.scope.AddVar(name, alloc)
addVar(g, name, alloc) == SetScopeB(g, AddVar(g.scope, name, alloc))

declareSmt(g, node) ==
    Bind(expressionB(g, node.e), LAMBDA exp :
    Bind(Alloca(exp.g, exp.g.block, node.ty), LAMBDA alloc :
        addVar(Store(alloc.g, alloc.g.block, alloc.v, exp.v), node.name, alloc.v)))

assignmentSmt(g, node) ==
    Bind(expressionB(g, node.e), LAMBDA exp :
    Bind(GetVar(exp.g.scope, node.name), LAMBDA alloc :
        IF alloc = NilV THEN Raise(exp.g, "FatalNotInScope")
        ELSE addVar(Store(exp.g, exp.g.block, alloc, exp.v), node.name, alloc)))

statements(g, ss, i) ==
    IF i > Len(ss) THEN g
    ELSE Bind(statement(g, ss[i]), LAMBDA g1 : statements(g1, ss, i + 1))

\* g.scope = g.scope.Push()
push(g) == SetScopeB(g, Push(g.scope))

\* block pushes a frame and never pops it
block(g, ss) == Bind(push(g), LAMBDA g1 : statements(g1, ss, 1))

\* lines 112-117: the conditional branch, emitted after the body
ifCondition(g, node, parent, body, falseBlock) ==
    IF node.cond # Nil
    THEN Bind(expressionB(SetBlock(g, parent), node.cond), LAMBDA condition :
              CondBr(condition.g, parent, condition.v, body, falseBlock))
    ELSE g

\* lines 119-126
ifElse(g, node, falseBlock, endBlock) ==
    SetBlock(IF node.else # Nil
             THEN ifSmt(SetBlock(g, falseBlock), node.else, falseBlock, endBlock)
             ELSE SetBlock(g, falseBlock),
             endBlock)

\* blk = NoBlock stands for the nil block argument
ifSmt(g, node, blk, endBlock) ==
    Bind(IF blk = NoBlock THEN AddBlock(g, g.block.fn) ELSE [g |-> g, v |-> blk],
         LAMBDA body :
    Bind(IF node.else # Nil THEN AddBlock(body.g, body.g.block.fn)
         ELSE [g |-> body.g, v |-> endBlock],
         LAMBDA falseBlock :
    Bind(block(SetBlock(falseBlock.g, body.v), node.block), LAMBDA g1 :
    Bind(BrUnlessTerminated(g1, body.v, endBlock), LAMBDA g2 :
    Bind(ifCondition(g2, node, g.block, body.v, falseBlock.v), LAMBDA g3 :
        ifElse(g3, node, falseBlock.v, endBlock))))))

\* case *ast.IfStatment of statement
ifStatement(g, node) ==
    Bind(AddBlock(g, g.block.fn), LAMBDA endBlock :
        ifSmt(endBlock.g, node, NoBlock, endBlock.v))

\* line 75 takes reflect.TypeOf(node).String() before the switch
statement(g, node) ==
    CASE node.k = "Nil" -> Raise(g, "NilDereference")
      [] node.k = "If" -> ifStatement(g, node)
      [] node.k = "Return" -> returnSmt(g, node)
      [] node.k = "Assign" /\ node.declare -> declareSmt(g, node)
      [] node.k = "Assign" /\ ~node.declare -> assignmentSmt(g, node)
      [] OTHER -> g

\* function, lines 52-60: the argument slots
RECURSIVE functionArgsB(_, _, _, _)
functionArgsB(g, fn, params, i) ==
    IF i > Len(params) THEN g
    ELSE Bind(AddArgument(g, fn, params[i].ty, params[i].name), LAMBDA arg :
         Bind(Alloca(arg.g, arg.g.block, params[i].ty), LAMBDA alloc :
         Bind(addVar(Store(alloc.g, alloc.g.block, alloc.v, arg.v),
                     params[i].name, alloc.v),
              LAMBDA g1 : functionArgsB(g1, fn, params, i + 1))))

\* g.scope.AddFunction(fName, f)
addFunction(g, name, fv) == SetScopeB(g, AddFunction(g.scope, name, fv))

\* function, lines 44-60, and the push that opens block (line 67)
functionB(g, node) ==
    Bind(NewFunction(g, node.name, node.ret), LAMBDA g1 :
        push(functionArgsB(SetBlock(addFunction(g1, node.name,
                                                FuncV(Len(g1.module), node.name)),
                                    Entry(Len(g1.module))),
                           Len(g1.module), node.params, 1)))

NewIrgenB(tree) == [Blank EXCEPT !.scope = NewScope]

\* ------------------------------------------------------------- inputs
\* The typed ASTs handed to the lowerers.  x, y, i are variables (x and y
\* are bound only when they are parameters or have been declared), f and g
\* are functions.
ParamPool == << Param("x", "double"), Param("y", "i64"), Param("i", "i64") >>

ParamLists ==
    { SubSeq(ParamPool, 1, n) : n \in 0..(IF MaxParams < 3 THEN MaxParams ELSE 3) }

Conds == { Ident("true"), Binary("LSS", FALSE, Ident("y"), IntLit(1)) }

\* blocks of if arms, loop bodies and nested blocks
Blocks ==
    { <<>>,
      << Return(IntLit(1)) >>,
      << Return(Ident("y")) >>,
      << Assign("y", TRUE, "i64", IntLit(1)) >>,
      << Assign("y", FALSE, "i64", IntLit(2)) >>,
      << Assign("y", TRUE, "i64", IntLit(1)), Return(Ident("y")) >>,
      << Return(IntLit(1)), Assign("y", TRUE, "i64", IntLit(1)) >>,
      << If(Ident("true"), << Return(IntLit(1)) >>, Nil) >> }

ArmBlocks == { <<>>, << Return(IntLit(2)) >>, << Assign("y", TRUE, "i64", IntLit(1)) >> }

Elses ==
    {Nil}
    \cup { If(Nil, b, Nil) : b \in ArmBlocks }
    \cup { If(Ident("true"), b, Nil) : b \in ArmBlocks }
    \cup { If(Ident("true"), b, If(Nil, b2, Nil)) : b \in ArmBlocks, b2 \in ArmBlocks }

Ifs == { If(c, b, e) : c \in Conds, b \in Blocks, e \in Elses }

Fors ==
    { For(Assign("i", TRUE, "i64", IntLit(0)),
          Binary("LSS", FALSE, Ident("i"), IntLit(1)),
          Assign("i", FALSE, "i64", Binary("ADD", FALSE, Ident("i"), IntLit(1))),
          b) : b \in Blocks }

Binaries ==
    { Binary(op, fp, l, IF fp THEN FloatLit(2) ELSE IntLit(2)) :
        op \in Ops, fp \in BOOLEAN,
        l \in { IntLit(1), Binary("MUL", TRUE, FloatLit(1), FloatLit(1)) } }

Exprs ==
    { IntLit(1), FloatLit(1), Ident("x"), Ident("y"), Ident("true"),
      Call("f", <<>>), Call("g", << IntLit(1) >>), Call("g", << Ident("y") >>),
      Cast("i64", FloatLit(1)), Cast("i64", IntLit(1)),
      ArrayValue("y", IntLit(0)), Nil }
    \cup Binaries

Assigns ==
    { Assign(n, d, "i64", e) :
        n \in {"x", "y"}, d \in BOOLEAN,
        e \in { IntLit(1), Ident("x"), Ident("y"),
                Binary("ADD", FALSE, Ident("y"), IntLit(1)) } }

FirstStmts ==
    { Return(e) : e \in Exprs } \cup Assigns \cup Ifs \cup Fors
    \cup { Block(b) : b \in Blocks }
    \cup { Assign("y", TRUE, "[2 x i64]",
                 ArrayList("y", "i64", << IntLit(1), IntLit(2) >>)),
           ArrayList("y", "i64", << IntLit(1) >>) }

TailStmts ==
    { Return(IntLit(1)), Return(Ident("y")), Assign("y", FALSE, "i64", IntLit(3)),
      If(Ident("true"), << Return(Ident("y")) >>, Nil) }

\* a function body: empty, one statement, or one statement and a tail statement
Bodies ==
    { <<>> } \cup { << st >> : st \in FirstStmts }
    \cup { << st, t >> : st \in FirstStmts, t \in TailStmts }

\* the second function of a two-function module
Callee == Function("g", << Param("x", "i64") >>, "i64", << Return(Ident("x")) >>)

Programs ==
    LET F == { Function("f", ps, "i64", b) : ps \in ParamLists, b \in Bodies }
    IN  { << fn >> : fn \in F } \cup { << fn, Callee >> : fn \in F }
        \cup { << Callee, fn >> : fn \in F }

\* ------------------------------------------------------------- machine
VARIABLES impl, tree, g, fi, si, pc, out

vars == << impl, tree, g, fi, si, pc, out >>

Init ==
    /\ impl \in {"A", "B"}
    /\ tree \in Programs
    /\ g = IF impl = "A" THEN NewIrgen(tree) ELSE NewIrgenB(tree)
    /\ fi = 0
    /\ si = 0
    /\ pc = "function"
    /\ out = "none"

Step(g1, pcOk) ==
    /\ g' = g1
    /\ pc' = IF Ok(g1) THEN pcOk ELSE "failed"

\* Generate calls g.function for the next function of the tree
FunctionA ==
    /\ impl = "A" /\ pc = "function" /\ fi < Len(tree)
    /\ Step(function(g, tree[fi + 1]), "body")
    /\ fi' = fi + 1 /\ si' = 0
    /\ UNCHANGED << impl, tree, out >>

\* one turn of the loop over node.Body.Expressions
ExpressionA ==
    /\ impl = "A" /\ pc = "body" /\ si < Len(tree[fi].body)
    /\ Step(expression(g, tree[fi].body[si + 1]).g, "body")
    /\ si' = si + 1
    /\ UNCHANGED << impl, tree, fi, out >>

FunctionB ==
    /\ impl = "B" /\ pc = "function" /\ fi < Len(tree)
    /\ Step(functionB(g, tree[fi + 1]), "body")
    /\ fi' = fi + 1 /\ si' = 0
    /\ UNCHANGED << impl, tree, out >>

\* one turn of the loop over node.Statements of the body block
StatementB ==
    /\ impl = "B" /\ pc = "body" /\ si < Len(tree[fi].body)
    /\ Step(statement(g, tree[fi].body[si + 1]), "body")
    /\ si' = si + 1
    /\ UNCHANGED << impl, tree, fi, out >>

\* the body loop is over: function returns to Generate
EndFunction ==
    /\ pc = "body" /\ si = Len(tree[fi].body)
    /\ pc' = "function"
    /\ UNCHANGED << impl, tree, g, fi, si, out >>

\* Generate returns g.module.LLVM()
Generate ==
    /\ pc = "function" /\ fi = Len(tree)
    /\ out' = "module"
    /\ pc' = "done"
    /\ UNCHANGED << impl, tree, g, fi, si >>

Next == FunctionA \/ ExpressionA \/ FunctionB \/ StatementB \/ EndFunction \/ Generate

Spec == Init /\ [][Next]_vars

\* ------------------------------------------------------------- properties
Range(sq) == { sq[k] : k \in 1..Len(sq) }

\* a block that ends with a terminator and holds no other terminator
WellFormedBlock(is) ==
    /\ Len(is) > 0
    /\ is[Len(is)].op \in Terminators
    /\ \A k \in 1..(Len(is) - 1) : is[k].op \notin Terminators

EntryOf(j) == g.module[j].blocks[1]

ParamNamesOf(fn) == { fn.params[k].name : k \in 1..Len(fn.params) }

\* what an identifier resolves to at the current point of lowering
ResolveVar(n) == IF impl = "A" THEN find(g, n) ELSE GetVar(g.scope, n)

\* what a call of a function name resolves to at the current point
ResolveFunction(n) == IF impl = "A" THEN g.functions[n] ELSE GetFunction(g.scope, n)

\* the first statement of the function being lowered has just been lowered
AfterFirst == fi >= 1 /\ si = 1 /\ pc \in {"body", "failed"}

First == tree[fi].body[1]

\* the failures that come from a name lookup that found nothing
UnknownIdentifier == {"FatalNotInScope", "InterfaceConversion"}

\* lowering has accepted the AST: the module has been returned, every
\* function has instructions and the block lowering ended in is terminated
C1_Accepted ==
    /\ out = "module"
    /\ \A j \in 1..Len(g.module) :
          \E b \in 1..Len(g.module[j].blocks) :
              Len(g.module[j].blocks[b]) > 0
    /\ Terminated(g, g.block)

\* C1: when lowering has accepted the AST (the module is returned, no
\* function is without instructions and the block lowering ended in is
\* terminated), every basic block of every function ends with exactly one
\* terminator: none is empty or unterminated and none holds an instruction
\* or a second terminator after its terminator.
C1_EveryBlockOneTerminator ==
    C1_Accepted =>
        \A j \in 1..Len(g.module) :
            \A b \in 1..Len(g.module[j].blocks) :
                WellFormedBlock(g.module[j].blocks[b])

\* C2: a function whose first statement reads a name, or assigns without
\* declaring to a name, that is no parameter (so no frame binds it) ends
\* lowering with the unknown-identifier failure, and no module is returned.
C2_FirstUseIsUnbound ==
    /\ \/ First.k = "Return" /\ First.value.k = "Ident"
          /\ First.value.name \in VarNames \ ParamNamesOf(tree[fi])
       \/ First.k = "Assign" /\ ~First.declare /\ First.e.k = "Int"
          /\ First.name \in VarNames \ ParamNamesOf(tree[fi])

C2_UnboundNameFails ==
    (fi >= 1 /\ si >= 1 /\ C2_FirstUseIsUnbound) =>
        (pc = "failed" /\ g.err \in UnknownIdentifier /\ out = "none")

\* the operator table of the design: (operator, IsFloat) -> instruction
SpecOpcode(op, isFp) ==
    CASE op = "ADD" -> IF isFp THEN "fadd" ELSE "add"
      [] op = "SUB" -> IF isFp THEN "fsub" ELSE "sub"
      [] op = "MUL" -> IF isFp THEN "fmul" ELSE "mul"
      [] op = "QUO" -> IF isFp THEN "fdiv" ELSE "sdiv"
      [] op = "REM" -> IF isFp THEN "unsupported" ELSE "srem"
      [] op = "EQL" -> IF isFp THEN "fcmp oeq" ELSE "icmp eq"
      [] op = "NEQ" -> IF isFp THEN "fcmp one" ELSE "icmp ne"
      [] op = "GTR" -> IF isFp THEN "fcmp ogt" ELSE "icmp sgt"
      [] op = "LSS" -> IF isFp THEN "fcmp olt" ELSE "icmp slt"

\* the table entries of the binary nodes of an expression, in evaluation
\* order (left operand, right operand, then the node itself)
RECURSIVE TableOps(_)
TableOps(e) ==
    IF e.k = "Binary"
    THEN TableOps(e.lhs) \o TableOps(e.rhs) \o << SpecOpcode(e.op, e.isFp) >>
    ELSE <<>>

RECURSIVE UntilUnsupported(_)
UntilUnsupported(ops) ==
    IF ops = <<>> \/ Head(ops) = "unsupported" THEN <<>>
    ELSE << Head(ops) >> \o UntilUnsupported(Tail(ops))

\* an instruction that is none of the memory, cast, call and branch ones
IsArith(q) ==
    q.op \notin {"alloca", "store", "load", "cast", "call", "br", "condbr", "ret",
                 "getelementptr", "extractvalue"}

EmittedArith(is) ==
    LET sel == SelectSeq(is, IsArith) IN [k \in 1..Len(sel) |-> sel[k].op]

C3_Case == AfterFirst /\ First.k = "Return" /\ First.value.k = "Binary"

\* C3: after `return <binary expression>` has been lowered, the arithmetic
\* and compare instructions of the entry block are exactly the operator
\* table's entries for the binary nodes, in evaluation order; when a node is
\* (REM, IsFloat) nothing is emitted for it or after it and lowering has
\* failed with the unhandled-binary-operator panic, and otherwise it has not
\* failed.
C3_BinaryOpcodes ==
    C3_Case =>
        LET ops == TableOps(First.value)
            n == Len(tree[fi].params)
        IN  /\ EmittedArith(EntryOf(fi)) = UntilUnsupported(ops)
            /\ "unsupported" \in Range(ops) <=>
                   (pc = "failed" /\ g.err = "PanicUnhandledBinaryOperator")
            /\ "unsupported" \notin Range(ops) => pc = "body"
            /\ pc = "failed" =>
                   Len(EntryOf(fi)) = 2 * n + Len(UntilUnsupported(ops))

\* a float REM whose left operand is a float multiplication: the fmul is
\* emitted, nothing for the REM, and lowering has failed
C3_Witness ==
    /\ C3_Case
    /\ First.value.op = "REM" /\ First.value.isFp
    /\ First.value.lhs.k = "Binary"
    /\ EmittedArith(EntryOf(fi)) = << "fmul" >>
    /\ pc = "failed"

\* C4: between the statements of a function body the scope stack is as deep
\* as at function entry, and a block opened now cannot resolve y when y is
\* no parameter and was declared only inside a block that has been left.
C4_DeclaredOnlyInside(st) ==
    /\ st.k \in {"If", "Block"}
    /\ \E k \in 1..Len(IF st.k = "If" THEN st.block ELSE st.stmts) :
          LET b == IF st.k = "If" THEN st.block ELSE st.stmts
          IN  b[k].k = "Assign" /\ b[k].declare /\ b[k].name = "y"

C4_BlockExitRestoresScope ==
    (AfterFirst /\ pc = "body" /\ C4_DeclaredOnlyInside(First)
        /\ "y" \notin ParamNamesOf(tree[fi])) =>
        IF impl = "A"
        THEN g.currentScope = 1 /\ findFrom(g, g.currentScope + 1, "y") = NilV
        ELSE Len(g.scope) = 2 /\ GetVar(Push(g.scope), "y") = NilV

\* C5: while a function body is lowered, the name of every function of the
\* module, declared earlier or later, resolves to that function's handle.
C5_ForwardReferencesResolve ==
    pc = "body" =>
        \A j \in 1..Len(tree) :
            /\ ResolveFunction(tree[j].name).k = "func"
            /\ ResolveFunction(tree[j].name).s = tree[j].name

\* C6: every function whose lowering has begun has the AST's parameters, in
\* order, and its entry block begins with an alloca of the parameter's type
\* and a store of the incoming parameter into it, for each parameter in
\* order; right after the prologue the entry block holds nothing else and
\* each parameter name resolves to its slot.
C6_Prologue(j) ==
    LET ps == tree[j].params
        e == EntryOf(j)
    IN  /\ g.module[j].params = ps
        /\ Len(e) >= 2 * Len(ps)
        /\ \A k \in 1..Len(ps) :
              /\ e[2 * k - 1].op = "alloca"
              /\ e[2 * k - 1].ty = ps[k].ty
              /\ e[2 * k].op = "store"
              /\ e[2 * k].x = PtrV(e[2 * k - 1].id, ps[k].ty)
              /\ e[2 * k].y = ArgV(k, ps[k].ty)

C6_ParameterSlots ==
    /\ \A j \in 1..fi : C6_Prologue(j)
    /\ (pc = "body" /\ si = 0) =>
          LET ps == tree[fi].params
          IN  /\ Len(EntryOf(fi)) = 2 * Len(ps)
              /\ \A k \in 1..Len(ps) :
                    ResolveVar(ps[k].name) = PtrV(EntryOf(fi)[2 * k - 1].id, ps[k].ty)

\* a function of two parameters whose first body statement has added
\* instructions after the four of the prologue
C6_Witness ==
    /\ pc = "body" /\ si = 1
    /\ Len(tree[fi].params) = 2
    /\ Len(EntryOf(fi)) > 4
    /\ C6_Prologue(fi)

\* C7: after `if C1 {..} else if true {..} ..` has been lowered, the false
\* successor of the first test block is the second arm's test block, which
\* holds only the conditional branch on the second condition, to a body
\* block of its own on true and to another block on false.
C7_Case == AfterFirst /\ First.k = "If" /\ First.else # Nil /\ First.else.cond # Nil

C7_ElseIfTestBlockWired ==
    C7_Case =>
        /\ pc = "body"
        /\ LET t1 == EntryOf(fi)
               bs == g.module[fi].blocks
           IN  /\ WellFormedBlock(t1)
               /\ t1[Len(t1)].op = "condbr"
               /\ LET i2 == t1[Len(t1)].f
                      t2 == bs[i2]
                  IN  /\ Len(t2) = 1
                      /\ t2[1].op = "condbr"
                      /\ t2[1].x = ConstV("i1", 1)
                      /\ t2[1].t \notin {1, i2, t1[Len(t1)].t}
                      /\ t2[1].f \notin {1, i2, t2[1].t}

\* C8: after a for loop whose body ends with a return has been lowered, the
\* body block holds nothing after that return, and the current block is the
\* exit block, the false successor of the branch into the loop.
C8_Case ==
    /\ impl = "A" /\ AfterFirst /\ pc = "body" /\ First.k = "For"
    /\ Len(First.block) > 0
    /\ First.block[Len(First.block)].k = "Return"

C8_NothingAfterTerminatedBody ==
    C8_Case =>
        LET e == EntryOf(fi)
            body == g.module[fi].blocks[e[Len(e)].t]
        IN  /\ e[Len(e)].op = "condbr"
            /\ WellFormedBlock(body)
            /\ body[Len(body)].op = "ret"
            /\ g.block = BlockRef(fi, e[Len(e)].f)

\* C9: after the declaration `n := <expression reading n>` has been lowered
\* as the first statement, lowering has failed when n is no parameter, and
\* otherwise no load reads the slot the declaration allocated.
C9_Case ==
    /\ AfterFirst /\ First.k = "Assign" /\ First.declare
    /\ \/ First.e.k = "Ident" /\ First.e.name = First.name
       \/ First.e.k = "Binary" /\ First.e.lhs.k = "Ident"
          /\ First.e.lhs.name = First.name

C9_InitializerBeforeBinding ==
    C9_Case =>
        IF First.name \notin ParamNamesOf(tree[fi])
        THEN pc = "failed"
        ELSE LET e == EntryOf(fi)
                 n == Len(tree[fi].params)
             IN  /\ pc = "body"
                 /\ \A k \in 1..Len(e) : \A m \in (2 * n + 1)..Len(e) :
                       (e[k].op = "load" /\ e[m].op = "alloca") => e[k].x.n # e[m].id

\* C10: a function (every one returns i64) whose lowering has completed has
\* a terminated final block.
C10_CompletedFunctionIsTerminated ==
    (fi >= 1 /\ pc \in {"function", "done"}) => Terminated(g, g.block)

====
